---------------------------- MODULE Spec2Model ----------------------------
(***************************************************************************)
(* Model of src/internal/utils.ts of the event-catalog SDK: the catalog    *)
(* lookup helpers versionExists, findFileById, getFiles, searchFilesForId, *)
(* the staging copy copyDir and the de-duplication uniqueMessages.         *)
(*                                                                         *)
(* JavaScript strings are sequences of one-character strings, so that      *)
(* String.includes, template concatenation, RegExp matching, semver        *)
(* parsing and localeCompare are computed character by character.         *)
(***************************************************************************)
EXTENDS Naturals, Sequences, FiniteSets

VARIABLES
    files,       \* lookup: the index.md files of the catalog, in glob order
    op,          \* lookup: which exported function has been called
    reqId,       \* lookup: the id argument
    reqVersion,  \* lookup: the version argument (NoVersion when omitted)
    result,      \* lookup: what the call returned
    pending,     \* searchFilesForId: indices of the reads still in flight
    done,        \* searchFilesForId: indices in the order the reads completed
    matches,     \* searchFilesForId: the array Promise.all fills
    outcome,     \* searchFilesForId: "idle", "reading", "resolved", "rejected"
    messages,    \* uniqueMessages: the input array
    idx,         \* uniqueMessages: how many elements filter has visited
    uniqueSet,   \* uniqueMessages: the Set of keys seen
    out,         \* uniqueMessages: the elements kept so far
    fs,          \* copyDir: the directories, each Absent or a tree
    pc,          \* copyDir: each call's position
    args,        \* copyDir: each call's source, target and filter
    overlapped   \* copyDir: per call, whether another call was in flight during it

lookupVars == <<files, op, reqId, reqVersion, result>>
searchVars == <<pending, done, matches, outcome>>
uniqueVars == <<messages, idx, uniqueSet, out>>
copyVars   == <<fs, pc, args, overlapped>>
vars == <<lookupVars, searchVars, uniqueVars, copyVars>>

-----------------------------------------------------------------------------
(* Bounds of the model *)

MaxFiles == 2      \* index.md files in the catalog of a lookup
MaxReads == 2      \* files handed to one searchFilesForId call
MaxMessages == 3   \* length of the array given to uniqueMessages

-----------------------------------------------------------------------------
(* Strings *)

Digit == {"0", "1", "2", "3", "4", "5", "6", "7", "8", "9"}
Lower == {"a", "b", "c", "d", "e", "f", "g", "h", "i", "j", "k", "l", "m",
          "n", "o", "p", "q", "r", "s", "t", "u", "v", "w", "x", "y", "z"}
Upper == {"A", "B", "C", "D", "E", "F", "G", "H", "I", "J", "K", "L", "M",
          "N", "O", "P", "Q", "R", "S", "T", "U", "V", "W", "X", "Y", "Z"}
WhiteSpace == {" ", "\n", "\t"}

DigitVal(c) ==
    CASE c = "0" -> 0 [] c = "1" -> 1 [] c = "2" -> 2 [] c = "3" -> 3
      [] c = "4" -> 4 [] c = "5" -> 5 [] c = "6" -> 6 [] c = "7" -> 7
      [] c = "8" -> 8 [] c = "9" -> 9

\* s.substring(from - 1, to)
Sub(s, from, to) == [i \in 1..(to - from + 1) |-> s[from + i - 1]]

\* s.indexOf(c) + 1 for a one-character c: 0 when c does not occur
IndexOf(s, c) ==
    IF \E i \in 1..Len(s) : s[i] = c
    THEN CHOOSE i \in 1..Len(s) : s[i] = c /\ \A j \in 1..(i - 1) : s[j] # c
    ELSE 0

\* s.includes(needle)
Includes(s, needle) ==
    \E i \in 0..(Len(s) - Len(needle)) :
        \A j \in 1..Len(needle) : s[i + j] = needle[j]

\* s.startsWith(prefix)
StartsWith(s, prefix) ==
    /\ Len(prefix) <= Len(s)
    /\ \A j \in 1..Len(prefix) : s[j] = prefix[j]

\* s.split(c) for a one-character separator c
RECURSIVE Split(_, _)
Split(s, c) ==
    LET i == IndexOf(s, c) IN
    IF i = 0 THEN <<s>>
    ELSE <<Sub(s, 1, i - 1)>> \o Split(Sub(s, i + 1, Len(s)), c)

\* s.trim()
RECURSIVE Trim(_)
Trim(s) ==
    IF s = <<>> THEN s
    ELSE IF s[1] \in WhiteSpace THEN Trim(Tail(s))
    ELSE IF s[Len(s)] \in WhiteSpace THEN Trim(Sub(s, 1, Len(s) - 1))
    ELSE s

-----------------------------------------------------------------------------
(* The semver package, as far as utils.ts uses it: valid, validRange and   *)
(* satisfies, in strict (non-loose) mode.  Versions are parsed in full.    *)
(* Of the range grammar the model reads "", "*", a version, a partial      *)
(* version or x-range ("1", "1.x"), and a caret or tilde in front of a     *)
(* version without pre-release tag; every other text is not a range.       *)

IdentChar == Digit \cup Lower \cup Upper \cup {"-"}

AllIn(s, S) == \A i \in 1..Len(s) : s[i] \in S

\* 0|[1-9]\d*
NumericId(s) == s # <<>> /\ AllIn(s, Digit) /\ (Len(s) = 1 \/ s[1] # "0")

\* a pre-release identifier: numeric without leading zero, or alphanumeric
PreId(s) == s # <<>> /\ AllIn(s, IdentChar) /\ (AllIn(s, Digit) => NumericId(s))

BuildId(s) == s # <<>> /\ AllIn(s, IdentChar)

RECURSIVE NumVal(_)
NumVal(s) ==
    IF s = <<>> THEN 0
    ELSE NumVal(Sub(s, 1, Len(s) - 1)) * 10 + DigitVal(s[Len(s)])

NoSemVer == [ok |-> FALSE, main |-> <<0, 0, 0>>, pre |-> <<>>]

\* new SemVer(version): trim, optional "v", MAJOR.MINOR.PATCH, optional
\* -PRERELEASE, optional +BUILD
SemVerParse(version) ==
    LET t     == Trim(version)
        u     == IF t # <<>> /\ t[1] = "v" THEN Tail(t) ELSE t
        plus  == IndexOf(u, "+")
        core  == IF plus = 0 THEN u ELSE Sub(u, 1, plus - 1)
        build == IF plus = 0 THEN <<>> ELSE Sub(u, plus + 1, Len(u))
        dash  == IndexOf(core, "-")
        main  == IF dash = 0 THEN core ELSE Sub(core, 1, dash - 1)
        pre   == IF dash = 0 THEN <<>> ELSE Split(Sub(core, dash + 1, Len(core)), ".")
        parts == Split(main, ".")
        ok    == /\ Len(parts) = 3
                 /\ \A i \in 1..Len(parts) : NumericId(parts[i])
                 /\ \A i \in 1..Len(pre) : PreId(pre[i])
                 /\ plus # 0 => \A i \in 1..Len(Split(build, ".")) :
                                    BuildId(Split(build, ".")[i])
    IN IF ok
       THEN [ok |-> TRUE,
             main |-> <<NumVal(parts[1]), NumVal(parts[2]), NumVal(parts[3])>>,
             pre |-> pre]
       ELSE NoSemVer

\* semver.valid(version): non-null exactly when the version parses
valid(version) == SemVerParse(version).ok

TupleLess(a, b) ==
    \/ a[1] < b[1]
    \/ a[1] = b[1] /\ a[2] < b[2]
    \/ a[1] = b[1] /\ a[2] = b[2] /\ a[3] < b[3]

NoRange == [kind |-> "none", lo |-> <<0, 0, 0>>, hi |-> <<0, 0, 0>>, pre |-> <<>>]

XId(s) == s = <<"x">> \/ s = <<"X">> \/ s = <<"*">>

\* a partial version M, M.m or M.m.x: n is the number of numeric parts
Partial(s) ==
    LET parts == Split(s, ".")
        n == Cardinality({i \in 1..Len(parts) :
                             \A j \in 1..i : NumericId(parts[j])})
        ok == /\ Len(parts) \in 1..3
              /\ n \in 1..2 \/ (n = 3 /\ Len(parts) = 3)
              /\ \A i \in (n + 1)..Len(parts) : XId(parts[i])
        num(i) == IF i <= n THEN NumVal(parts[i]) ELSE 0
    IN [ok |-> ok, n |-> n, main |-> <<num(1), num(2), num(3)>>]

\* the version just above every version that shares the first n numbers
Bump(main, n) ==
    IF n = 1 THEN <<main[1] + 1, 0, 0>>
    ELSE IF n = 2 THEN <<main[1], main[2] + 1, 0>>
    ELSE <<main[1], main[2], main[3] + 1>>

\* new Range(range): the comparator set the text stands for
RangeParse(range) ==
    LET t    == Trim(range)
        sv   == SemVerParse(t)
        eq   == IF t # <<>> /\ t[1] = "=" THEN SemVerParse(Tail(t)) ELSE NoSemVer
        rest == IF t = <<>> THEN t ELSE Trim(Tail(t))
        body == IF rest # <<>> /\ rest[1] = "v" THEN Tail(rest) ELSE rest
        bare == IF t # <<>> /\ t[1] = "v" THEN Tail(t) ELSE t
        p    == Partial(body)
        q    == Partial(bare)
    IN IF t = <<>> \/ XId(t)
       THEN [NoRange EXCEPT !.kind = "any"]
       ELSE IF sv.ok
       THEN [kind |-> "eq", lo |-> sv.main, hi |-> sv.main, pre |-> sv.pre]
       ELSE IF eq.ok
       THEN [kind |-> "eq", lo |-> eq.main, hi |-> eq.main, pre |-> eq.pre]
       ELSE IF t[1] = "^" /\ p.ok
       THEN [kind |-> "between", lo |-> p.main, pre |-> <<>>,
             hi |-> IF p.main[1] > 0 \/ p.n = 1 THEN Bump(p.main, 1)
                    ELSE IF p.main[2] > 0 \/ p.n = 2 THEN Bump(p.main, 2)
                    ELSE Bump(p.main, 3)]
       ELSE IF t[1] = "~" /\ p.ok
       THEN [kind |-> "between", lo |-> p.main, pre |-> <<>>,
             hi |-> IF p.n = 1 THEN Bump(p.main, 1) ELSE Bump(p.main, 2)]
       ELSE IF q.ok /\ q.n < 3
       THEN [kind |-> "between", lo |-> q.main, pre |-> <<>>,
             hi |-> Bump(q.main, q.n)]
       ELSE NoRange

\* semver.validRange(range): the parsed range, NoRange standing for null
validRange(range) == RangeParse(range)

\* semver.satisfies(version, range): a version with a pre-release tag
\* satisfies only a comparator of its own MAJOR.MINOR.PATCH that has one
satisfies(version, range) ==
    LET sv == SemVerParse(version) IN
    /\ sv.ok
    /\ \/ range.kind = "eq" /\ sv.main = range.lo /\ sv.pre = range.pre
       \/ range.kind = "any" /\ sv.pre = <<>>
       \/ /\ range.kind = "between"
          /\ sv.pre = <<>>
          /\ ~TupleLess(sv.main, range.lo)
          /\ TupleLess(sv.main, range.hi)

-----------------------------------------------------------------------------
(* String.prototype.localeCompare under the root collation: punctuation,   *)
(* then symbols, then digits, then letters.  The model orders the          *)
(* characters below, which are the ones its version strings are made of.   *)

Collation ==
    <<" ", "-", ".", "'", "^", "+", "=", "~",
      "0", "1", "2", "3", "4", "5", "6", "7", "8", "9",
      "a", "b", "c", "d", "e", "f", "g", "h", "i", "j", "k", "l", "m",
      "n", "o", "p", "q", "r", "s", "t", "u", "v", "w", "x", "y", "z">>

CharRank(c) == IndexOf(Collation, c)

\* a.localeCompare(b) < 0
RECURSIVE LocaleLess(_, _)
LocaleLess(a, b) ==
    IF b = <<>> THEN FALSE
    ELSE IF a = <<>> THEN TRUE
    ELSE IF a[1] = b[1] THEN LocaleLess(Tail(a), Tail(b))
    ELSE CharRank(a[1]) < CharRank(b[1])

-----------------------------------------------------------------------------
(* RegExp matching.  A match is followed as the set of offsets into the    *)
(* content that the pattern read so far can have reached.  The text that   *)
(* the template literal splices into the pattern is pattern source: "."    *)
(* stands for any character but a line break, "^" and "$" are the line     *)
(* anchors of the "m" flag, and every other character of the model's ids   *)
(* and versions stands for itself.                                         *)

\* ^ under the "m" flag
LineStarts(c) == {p \in 0..Len(c) : p = 0 \/ c[p] = "\n"}

\* $ under the "m" flag
AtLineEnd(c, p) == p = Len(c) \/ c[p + 1] = "\n"

\* a literal
Lit(c, P, lit) ==
    {p + Len(lit) : p \in {q \in P : /\ q + Len(lit) <= Len(c)
                                      /\ \A j \in 1..Len(lit) : c[q + j] = lit[j]}}

\* \s*
Spaces(c, P) ==
    {q \in 0..Len(c) : \E p \in P : p <= q /\ \A j \in (p + 1)..q : c[j] \in WhiteSpace}

\* ['"]?
OptQuote(c, P) == P \cup Lit(c, P, <<"'">>) \cup Lit(c, P, <<"\"">>)

\* one character of spliced pattern source
Atom(c, P, a) ==
    IF a = "." THEN {p + 1 : p \in {q \in P : q < Len(c) /\ c[q + 1] # "\n"}}
    ELSE IF a = "^" THEN P \cap LineStarts(c)
    ELSE IF a = "$" THEN {p \in P : AtLineEnd(c, p)}
    ELSE Lit(c, P, <<a>>)

RECURSIVE Source(_, _, _)
Source(c, P, src) ==
    IF src = <<>> THEN P ELSE Source(c, Atom(c, P, src[1]), Tail(src))

\* content.match(new RegExp(`^id:\\s*(['"]|>-)?\\s*${id}['"]?\\s*$`, 'm'))
idRegex(content, id) ==
    LET P1 == Spaces(content, Lit(content, LineStarts(content), <<"i", "d", ":">>))
        P2 == Spaces(content, OptQuote(content, P1) \cup Lit(content, P1, <<">", "-">>))
        P3 == Spaces(content, OptQuote(content, Source(content, P2, id)))
    IN \E p \in P3 : AtLineEnd(content, p)

\* content.match(new RegExp(`^version:\\s*['"]?${version}['"]?\\s*$`, 'm'))
versionRegex(content, version) ==
    LET P1 == Spaces(content, Lit(content, LineStarts(content), <<"v", "e", "r", "s", "i", "o", "n", ":">>))
        P2 == OptQuote(content, P1)
        P3 == Spaces(content, OptQuote(content, Source(content, P2, version)))
    IN \E p \in P3 : AtLineEnd(content, p)

-----------------------------------------------------------------------------
(* gray-matter: the front matter is the block between a first line "---"   *)
(* and the next such line; of its YAML the model reads the scalar of the   *)
(* version key, plain or quoted.                                           *)

Fence == <<"-", "-", "-">>
VersionKey == <<"v", "e", "r", "s", "i", "o", "n", ":">>

Undefined == <<>>

Unquote(v) ==
    IF Len(v) >= 2 /\ v[1] = v[Len(v)] /\ v[1] \in {"'", "\""}
    THEN Sub(v, 2, Len(v) - 1)
    ELSE v

\* matter.read(path).data.version
MatterVersion(content) ==
    LET lines == Split(content, "\n")
        close == {i \in 2..Len(lines) : lines[i] = Fence}
        keys  == {i \in 2..Len(lines) :
                     /\ \E k \in close : i < k /\ \A j \in close : k <= j
                     /\ StartsWith(lines[i], VersionKey)}
    IN IF lines[1] # Fence \/ close = {} \/ keys = {}
       THEN Undefined
       ELSE LET i == CHOOSE k \in keys : \A j \in keys : k <= j
            IN Unquote(Trim(Sub(lines[i], Len(VersionKey) + 1, Len(lines[i]))))

-----------------------------------------------------------------------------
(* searchFilesForId, findFileById and versionExists as functions of the    *)
(* catalog.  A file is [path, content], its path relative to catalogDir;   *)
(* the catalog is the sequence of its files in the order glob walks them.  *)

\* the version parameter left out
NoVersion == <<"undefined">>

\* JavaScript truthiness of the optional version: undefined and "" are falsy
Truthy(version) == version # NoVersion /\ version # <<>>

\* the last segment of a path
BaseName(path) == Split(path, "/")[Len(Split(path, "/"))]

\* getFiles(`${catalogDir}/**/index.md`): the files named index.md at any
\* depth; no path of the model lies under the ignored node_modules/
getFiles(catalog) ==
    SelectSeq(catalog, LAMBDA f : BaseName(f.path) = <<"i", "n", "d", "e", "x", ".", "m", "d">>)

\* ReadResult without the version check
ReadResultIdOnly(file, id, version) ==
    IF idRegex(file.content, id) THEN file.path ELSE Undefined

\* the callback of files.map: the file's path, or undefined
ReadResult(file, id, version) ==
    LET hasIdMatch == idRegex(file.content, id) IN
    IF Truthy(version) /\ ~versionRegex(file.content, version) THEN Undefined
    ELSE IF hasIdMatch THEN file.path
    ELSE Undefined

\* matches.filter(Boolean).filter((file) => file !== undefined)
FilterDefined(ms) == SelectSeq(ms, LAMBDA m : m # Undefined)

\* searchFilesForId once every read has succeeded
searchFilesForId(fileList, id, version) ==
    FilterDefined([i \in 1..Len(fileList) |-> ReadResult(fileList[i], id, version)])

\* what reading the file at a path yields
ContentOf(catalog, path) ==
    (CHOOSE f \in {catalog[i] : i \in 1..Len(catalog)} : f.path = path).content

\* matchedFiles.find((path) => !path.includes('versioned'))
LatestVersion(matchedFiles) ==
    LET keep == SelectSeq(matchedFiles, LAMBDA path : ~Includes(path, <<"v", "e", "r", "s", "i", "o", "n", "e", "d">>))
    IN IF keep = <<>> THEN Undefined ELSE keep[1]

\* matchedFiles.map((path) => ({ ...matter.read(path).data, path }))
ParsedFiles(catalog, matchedFiles) ==
    [i \in 1..Len(matchedFiles) |->
        [path |-> matchedFiles[i],
         version |-> MatterVersion(ContentOf(catalog, matchedFiles[i]))]]

\* FirstPath taking the last match instead of the first
LastMatchPath(match) == IF Len(match) > 0 THEN match[Len(match)].path ELSE Undefined

\* match.length > 0 ? match[0].path : undefined
FirstPath(match) == IF Len(match) > 0 THEN match[1].path ELSE Undefined

\* LastPath taking the head of the sorted array instead of its end
OldestPath(sorted) == IF Len(sorted) > 0 THEN sorted[1].path ELSE Undefined

\* sorted.length > 0 ? sorted[sorted.length - 1].path : undefined
LastPath(sorted) == IF Len(sorted) > 0 THEN sorted[Len(sorted)].path ELSE Undefined

\* Array.prototype.sort with (a, b) => a.version.localeCompare(b.version):
\* ascending, and stable
RECURSIVE SortByVersion(_)
SortByVersion(parsed) ==
    IF parsed = <<>> THEN <<>>
    ELSE LET x    == parsed[Len(parsed)]
             head == SortByVersion(Sub(parsed, 1, Len(parsed) - 1))
             k    == Cardinality({i \in 1..Len(head) :
                         \A j \in 1..i : ~LocaleLess(x.version, head[j].version)})
         IN Sub(head, 1, k) \o <<x>> \o Sub(head, k + 1, Len(head))

\* the branch of findFileById taken for a version that semver accepts
ExactBranch(version) == validRange(version).kind # "none" /\ valid(version)

findFileById(catalog, id, version) ==
    LET fileList     == getFiles(catalog)
        matchedFiles == searchFilesForId(fileList, id, NoVersion)
        parsedFiles  == ParsedFiles(catalog, matchedFiles)
        semverRange  == validRange(version)
    IN IF ~Truthy(version) THEN LatestVersion(matchedFiles)
       ELSE IF ExactBranch(version)
       THEN FirstPath(SelectSeq(parsedFiles,
                                LAMBDA c : satisfies(c.version, semverRange)))
       ELSE LastPath(SortByVersion(parsedFiles))

\* versionExists searching by id alone
AnyVersionExists(catalog, id, version) ==
    Len(searchFilesForId(getFiles(catalog), id, NoVersion)) > 0

versionExists(catalog, id, version) ==
    Len(searchFilesForId(getFiles(catalog), id, version)) > 0

-----------------------------------------------------------------------------
(* The catalogs and the arguments the model draws from.  Every document    *)
(* keeps the front-matter contract: an id and a string version.            *)

PathLatest      == <<"e", "/", "i", "n", "d", "e", "x", ".", "m", "d">>
PathVersioned   == <<"e", "/", "v", "e", "r", "s", "i", "o", "n", "e", "d", "/", "1", "/", "i", "n", "d", "e", "x", ".", "m", "d">>
PathUnversioned == <<"u", "n", "v", "e", "r", "s", "i", "o", "n", "e", "d", "/", "i", "n", "d", "e", "x", ".", "m", "d">>
PathOther       == <<"e", "/", "c", "h", "a", "n", "g", "e", "l", "o", "g", ".", "m", "d">>
Paths == {PathLatest, PathVersioned, PathUnversioned}

IdX == <<"x">>
IdY == <<"y">>
Ids == {IdX, IdY}

V120    == <<"1", ".", "2", ".", "0">>
V200    == <<"2", ".", "0", ".", "0">>
VADraft == <<"a", "-", "d", "r", "a", "f", "t">>
VBDraft == <<"b", "-", "d", "r", "a", "f", "t">>
VCaret  == <<"^", "1", ".", "0", ".", "0">>
VTag    == <<"l", "a", "t", "e", "s", "t", "-", "d", "r", "a", "f", "t">>
VMajor  == <<"1">>

Quoted(v) == <<"'">> \o v \o <<"'">>

Document(idText, versionText) ==
    Fence \o <<"\n">> \o <<"i", "d", ":", " ">> \o idText \o <<"\n">>
          \o VersionKey \o <<" ">> \o versionText \o <<"\n">> \o Fence \o <<"\n">>

Documents ==
    {Document(IdX, V120), Document(IdX, V200), Document(Quoted(IdX), Quoted(V120)),
     Document(IdX, VADraft), Document(IdX, VBDraft), Document(IdY, V120)}

\* the index.md files, and one file that is not named index.md
CatalogFile ==
    [path : Paths, content : Documents]
        \cup {[path |-> PathOther, content |-> Document(IdX, V200)]}

\* listings of at most max files with distinct paths
Listings(fileSet, max) ==
    UNION {{c \in [1..n -> fileSet] :
               \A i, j \in 1..n : i # j => c[i].path # c[j].path} : n \in 0..max}

Catalogs == Listings(CatalogFile, MaxFiles)

SearchedFile ==
    [path : Paths,
     content : {Document(IdX, V120), Document(IdX, V200), Document(IdY, V120)}]

SearchedLists == Listings(SearchedFile, MaxReads)

VersionArgs == {V120, V200, VCaret, VTag, VMajor, <<>>}

-----------------------------------------------------------------------------
(* Lookup calls *)

SearchIdle == pending = {} /\ done = <<>> /\ matches = <<>> /\ outcome = "idle"
UniqueIdle == messages = <<>> /\ idx = 0 /\ uniqueSet = {} /\ out = <<>>
CopyIdle   == fs = <<>> /\ pc = <<>> /\ args = <<>> /\ overlapped = <<>>

LookupInit ==
    /\ files \in Catalogs
    /\ op = "none"
    /\ reqId = Undefined
    /\ reqVersion = NoVersion
    /\ result = Undefined
    /\ SearchIdle /\ UniqueIdle /\ CopyIdle

FindFileByIdCall ==
    /\ op = "none"
    /\ \E id \in Ids, version \in VersionArgs \cup {NoVersion} :
        /\ op' = "findFileById"
        /\ reqId' = id
        /\ reqVersion' = version
        /\ result' = findFileById(files, id, version)
    /\ UNCHANGED <<files, searchVars, uniqueVars, copyVars>>

VersionExistsCall ==
    /\ op = "none"
    /\ \E id \in Ids, version \in VersionArgs :
        /\ op' = "versionExists"
        /\ reqId' = id
        /\ reqVersion' = version
        /\ result' = versionExists(files, id, version)
    /\ UNCHANGED <<files, searchVars, uniqueVars, copyVars>>

LookupNext == FindFileByIdCall \/ VersionExistsCall

LookupSpec == LookupInit /\ [][LookupNext]_vars

-----------------------------------------------------------------------------
(* Properties of the lookup calls *)

\* the index.md files whose content has a line matching the id pattern
Candidates ==
    {i \in 1..Len(files) :
        /\ BaseName(files[i].path) = <<"i", "n", "d", "e", "x", ".", "m", "d">>
        /\ idRegex(files[i].content, reqId)}

FrontMatterVersion(i) == MatterVersion(files[i].content)

\* the path of the first file, in catalog order, among the indices S
FirstOf(S) ==
    IF S = {} THEN Undefined
    ELSE files[CHOOSE i \in S : \A j \in S : i <= j].path

HasSegment(path, segment) ==
    \E i \in 1..Len(Split(path, "/")) : Split(path, "/")[i] = segment

RangeCall ==
    /\ op = "findFileById"
    /\ Truthy(reqVersion)
    /\ validRange(reqVersion).kind # "none"

InRange(i) == satisfies(FrontMatterVersion(i), validRange(reqVersion))

\* C1: findFileById with a semver range as version returns a candidate whose
\* front-matter version satisfies the range whenever there is one, and never a
\* candidate whose version does not satisfy it.
C1_RangeResolvesToSatisfying ==
    RangeCall =>
        /\ (\E i \in Candidates : InRange(i)) => result # Undefined
        /\ result # Undefined =>
               \E i \in Candidates : files[i].path = result /\ InRange(i)

\* C2 as stated: versionExists is true exactly when some file with the id has
\* a version that satisfies the requested semver range.
C2_ExistsWhenRangeSatisfied ==
    (op = "versionExists" /\ validRange(reqVersion).kind # "none") =>
        (result = TRUE <=> \E i \in Candidates : InRange(i))

\* C2 as amended: versionExists is true exactly when some file has a line
\* matching the id pattern and, for a non-empty version, a line matching the
\* version pattern, in which the version text is pattern source and is not
\* read as a semver range.
C2_ExistsWhenVersionLineMatches ==
    op = "versionExists" =>
        (result = TRUE <=>
            \E i \in Candidates :
                Truthy(reqVersion) => versionRegex(files[i].content, reqVersion))

\* the version is found in one candidate and not in another
C2_Witness ==
    /\ op = "versionExists"
    /\ reqVersion = V120
    /\ result = TRUE
    /\ \E i \in Candidates : ~versionRegex(files[i].content, reqVersion)

\* C3: findFileById without a version returns the first candidate path that
\* has no path segment "versioned", and undefined when there is none.
C3_LatestIsFirstOutsideVersioned ==
    (op = "findFileById" /\ reqVersion = NoVersion) =>
        result = FirstOf({i \in Candidates :
                             ~HasSegment(files[i].path, <<"v", "e", "r", "s", "i", "o", "n", "e", "d">>)})

\* C4: for a valid concrete semver version the result is the first candidate,
\* in catalog order, whose front-matter version satisfies it, and undefined when
\* none does.
C4_ExactIsFirstSatisfying ==
    (op = "findFileById" /\ Truthy(reqVersion) /\ valid(reqVersion)) =>
        result = FirstOf({i \in Candidates : InRange(i)})

\* two candidates satisfy the version and the earlier one in catalog order
\* is returned
C4_Witness ==
    /\ op = "findFileById" /\ Truthy(reqVersion) /\ valid(reqVersion)
    /\ \E i, j \in Candidates :
          /\ i < j
          /\ InRange(i) /\ InRange(j)
          /\ result = files[i].path

-----------------------------------------------------------------------------
(* searchFilesForId, read by read.  files.map starts one read per file;    *)
(* the reads settle in any order, each fulfilled or rejected; Promise.all  *)
(* keeps each callback's value at the index of its file, rejects with the  *)
(* first rejection and fulfils once every read has been fulfilled.         *)

SearchInit ==
    /\ files \in SearchedLists
    /\ op = "none"
    /\ reqId = Undefined
    /\ reqVersion = NoVersion
    /\ result = Undefined
    /\ SearchIdle /\ UniqueIdle /\ CopyIdle

\* lines 63-67: the patterns are built and every read is issued
SearchCall ==
    /\ op = "none"
    /\ \E id \in Ids, version \in {NoVersion, V120, VCaret} :
        /\ reqId' = id
        /\ reqVersion' = version
    /\ op' = "searchFilesForId"
    /\ pending' = 1..Len(files)
    /\ matches' = [i \in 1..Len(files) |-> Undefined]
    /\ outcome' = "reading"
    /\ UNCHANGED <<files, result, done, uniqueVars, copyVars>>

\* lines 68-78: a read is fulfilled and its callback returns
ReadFulfilled(i) ==
    /\ i \in pending
    /\ pending' = pending \ {i}
    /\ done' = Append(done, i)
    /\ matches' = [matches EXCEPT ![i] = ReadResult(files[i], reqId, reqVersion)]
    /\ UNCHANGED <<lookupVars, outcome, uniqueVars, copyVars>>

\* line 68: a read is rejected; the first rejection rejects Promise.all
ReadRejected(i) ==
    /\ i \in pending
    /\ pending' = pending \ {i}
    /\ outcome' = IF outcome = "reading" THEN "rejected" ELSE outcome
    /\ UNCHANGED <<lookupVars, done, matches, uniqueVars, copyVars>>

\* lines 66, 82: Promise.all is fulfilled and the matches are filtered
SearchReturn ==
    /\ outcome = "reading"
    /\ pending = {}
    /\ outcome' = "resolved"
    /\ result' = FilterDefined(matches)
    /\ UNCHANGED <<files, op, reqId, reqVersion, pending, done, matches,
                   uniqueVars, copyVars>>

SearchNext ==
    \/ SearchCall
    \/ \E i \in 1..Len(files) : ReadFulfilled(i)
    \/ \E i \in 1..Len(files) : ReadRejected(i)
    \/ SearchReturn

SearchSpec == SearchInit /\ [][SearchNext]_vars

\* the reads that were rejected
Rejected ==
    {i \in 1..Len(files) : i \notin pending /\ \A k \in 1..Len(done) : done[k] # i}

\* the paths, in input order, of the files whose content matches the id
\* pattern and, for a version that is supplied, the version pattern
MatchingPaths ==
    LET sel == SelectSeq(files, LAMBDA f :
                   /\ idRegex(f.content, reqId)
                   /\ Truthy(reqVersion) => versionRegex(f.content, reqVersion))
    IN [i \in 1..Len(sel) |-> sel[i].path]

\* C9: whatever the order in which the reads complete, searchFilesForId
\* returns, in input order, exactly the files that match the id pattern and,
\* when a version is supplied, the version pattern; and once a read has failed
\* the call fails and returns nothing.
C9_SearchKeepsInputOrder ==
    op = "searchFilesForId" =>
        /\ outcome = "resolved" => result = MatchingPaths
        /\ Rejected # {} => outcome = "rejected"
        /\ outcome = "rejected" => result = Undefined

\* two files match, the read of the second completed first, and the result
\* still lists the first file first
C9_Witness ==
    /\ outcome = "resolved"
    /\ Truthy(reqVersion)
    /\ Len(result) = 2
    /\ Len(done) = 2 /\ done[1] > done[2]
    /\ result[1] = files[1].path

-----------------------------------------------------------------------------
(* uniqueMessages, one element of the filter at a time.  A message is      *)
(* [id, version]; the key is the template literal `${id}-${version}`.      *)

MessageIds == {<<"a">>, <<"a", "-", "b">>}
MessageVersions == {<<"c">>, <<"b", "-", "c">>}
Message == [id : MessageIds, version : MessageVersions]

\* `${message.id}-${message.version}`
Key(message) == message.id \o <<"-">> \o message.version

LookupIdle ==
    /\ files = <<>> /\ reqId = Undefined /\ reqVersion = NoVersion
    /\ result = Undefined

UniqueInit ==
    /\ messages \in UNION {[1..n -> Message] : n \in 0..MaxMessages}
    /\ idx = 0
    /\ uniqueSet = {}
    /\ out = <<>>
    /\ op = "none"
    /\ LookupIdle /\ SearchIdle /\ CopyIdle

\* line 113: const uniqueSet = new Set()
UniqueCall ==
    /\ op = "none"
    /\ op' = "uniqueMessages"
    /\ uniqueSet' = {}
    /\ UNCHANGED <<files, reqId, reqVersion, result, messages, idx, out,
                   searchVars, copyVars>>

\* lines 116-120: the key is new; it is added and the message is kept
FilterKeeps ==
    /\ op = "uniqueMessages"
    /\ idx < Len(messages)
    /\ Key(messages[idx + 1]) \notin uniqueSet
    /\ uniqueSet' = uniqueSet \cup {Key(messages[idx + 1])}
    /\ out' = Append(out, messages[idx + 1])
    /\ idx' = idx + 1
    /\ UNCHANGED <<lookupVars, messages, searchVars, copyVars>>

\* lines 116-117, 121: the key has been seen; the message is dropped
FilterDrops ==
    /\ op = "uniqueMessages"
    /\ idx < Len(messages)
    /\ Key(messages[idx + 1]) \in uniqueSet
    /\ idx' = idx + 1
    /\ UNCHANGED <<lookupVars, messages, uniqueSet, out, searchVars, copyVars>>

UniqueNext == UniqueCall \/ FilterKeeps \/ FilterDrops

UniqueSpec == UniqueInit /\ [][UniqueNext]_vars

\* the positions at which an (id, version) pair occurs for the first time
FirstOccurrences ==
    {i \in 1..Len(messages) : \A j \in 1..(i - 1) : messages[j] # messages[i]}

\* C6: uniqueMessages returns exactly the first occurrence of each distinct
\* (id, version) pair, in input order.
C6_FirstOccurrenceOfEachPair ==
    (op = "uniqueMessages" /\ idx = Len(messages)) =>
        /\ Len(out) = Cardinality(FirstOccurrences)
        /\ \A k \in 1..Len(out) :
               \E i \in FirstOccurrences :
                   /\ Cardinality({j \in FirstOccurrences : j < i}) = k - 1
                   /\ out[k] = messages[i]

-----------------------------------------------------------------------------
(* copyDir.  A directory is absent or holds entries, a file name mapped to *)
(* its data; copy with overwrite merges the source's entries that pass the *)
(* filter into the destination, which it creates when absent, and is       *)
(* rejected when its source does not exist.  Two calls share catalogDir,   *)
(* hence catalogDir/tmp, and differ in source and target.  Each await of   *)
(* copyDir is one step.                                                    *)

Callers == {"first", "second"}
Names == {"a", "b"}
NoFile == "none"
Staging == "tmp"

SourceOf(p) == IF p = "first" THEN "source1" ELSE "source2"
TargetOf(p) == IF p = "first" THEN "target1" ELSE "target2"
DataOf(p)   == IF p = "first" THEN "data1" ELSE "data2"
Dirs == {Staging} \cup {SourceOf(p) : p \in Callers} \cup {TargetOf(p) : p \in Callers}

EmptyEntries == [n \in Names |-> NoFile]
Absent == [exists |-> FALSE, entries |-> EmptyEntries]
EmptyDir == [exists |-> TRUE, entries |-> EmptyEntries]

\* the filter argument: left out, or a predicate on the entry's name
NoFilter == [given |-> FALSE, keep |-> Names]
Filters == {NoFilter, [given |-> TRUE, keep |-> {"a"}]}

\* fs-extra copy(src, dest, { overwrite: true, filter }) on an existing src
CopyInto(dest, src, filter) ==
    [exists |-> TRUE,
     entries |-> [n \in Names |->
                     IF src.entries[n] # NoFile /\ n \in filter.keep
                     THEN src.entries[n]
                     ELSE dest.entries[n]]]

InFlight(p) == pc[p] \in {"mkdir", "copyIn", "copyOut", "rm"}
Finished(state) == state \in {"done", "failed"}

\* a source is absent or holds any of the names, with the caller's data
SourceTrees(p) ==
    {Absent} \cup
    {[exists |-> TRUE,
      entries |-> [n \in Names |-> IF n \in S THEN DataOf(p) ELSE NoFile]] :
        S \in SUBSET Names}

\* a directory left with an entry from before
OldDir == [exists |-> TRUE, entries |-> [n \in Names |-> IF n = "b" THEN "old" ELSE NoFile]]

CopyInit ==
    /\ \E s1 \in SourceTrees("first"), s2 \in SourceTrees("second"),
          t1 \in {Absent, EmptyDir, OldDir}, t2 \in {Absent, EmptyDir, OldDir},
          st \in {Absent, OldDir} :
          fs = [d \in Dirs |->
                   IF d = "source1" THEN s1
                   ELSE IF d = "source2" THEN s2
                   ELSE IF d = "target1" THEN t1
                   ELSE IF d = "target2" THEN t2
                   ELSE st]
    /\ pc = [p \in Callers |-> "idle"]
    /\ args = [p \in Callers |-> [filter |-> NoFilter, targetWas |-> Absent]]
    /\ overlapped = [p \in Callers |-> FALSE]
    /\ op = "none"
    /\ LookupIdle /\ SearchIdle /\ UniqueIdle

\* lines 92-94: copyDir is called and issues mkdir
CopyDirCall(p) ==
    /\ pc[p] = "idle"
    /\ \E filter \in Filters :
          args' = [args EXCEPT ![p] = [filter |-> filter, targetWas |-> fs[TargetOf(p)]]]
    /\ pc' = [pc EXCEPT ![p] = "mkdir"]
    /\ overlapped' = [q \in Callers |->
                         IF \E r \in Callers \ {p} : InFlight(r)
                         THEN overlapped[q] \/ q = p \/ InFlight(q)
                         ELSE overlapped[q]]
    /\ UNCHANGED <<fs, lookupVars, searchVars, uniqueVars>>

\* line 94: fs.mkdir(tmpDirectory, { recursive: true }) keeps a directory
\* that exists, with its entries
Mkdir(p) ==
    /\ pc[p] = "mkdir"
    /\ fs' = [fs EXCEPT ![Staging] = [@ EXCEPT !.exists = TRUE]]
    /\ pc' = [pc EXCEPT ![p] = "copyIn"]
    /\ UNCHANGED <<args, overlapped, lookupVars, searchVars, uniqueVars>>

\* lines 97-100: copy(source, tmpDirectory)
CopyIn(p) ==
    /\ pc[p] = "copyIn"
    /\ fs[SourceOf(p)].exists
    /\ fs' = [fs EXCEPT ![Staging] = CopyInto(@, fs[SourceOf(p)], args[p].filter)]
    /\ pc' = [pc EXCEPT ![p] = "copyOut"]
    /\ UNCHANGED <<args, overlapped, lookupVars, searchVars, uniqueVars>>

\* lines 97-100: copy is rejected, the source does not exist; copyDir rejects
CopyInFails(p) ==
    /\ pc[p] = "copyIn"
    /\ ~fs[SourceOf(p)].exists
    /\ pc' = [pc EXCEPT ![p] = "failed"]
    /\ UNCHANGED <<fs, args, overlapped, lookupVars, searchVars, uniqueVars>>

\* lines 102-105: copy(tmpDirectory, target)
CopyOut(p) ==
    /\ pc[p] = "copyOut"
    /\ fs[Staging].exists
    /\ fs' = [fs EXCEPT ![TargetOf(p)] = CopyInto(@, fs[Staging], args[p].filter)]
    /\ pc' = [pc EXCEPT ![p] = "rm"]
    /\ UNCHANGED <<args, overlapped, lookupVars, searchVars, uniqueVars>>

\* lines 102-105: copy is rejected: the staging directory is gone, or the
\* target cannot be written; copyDir rejects
CopyOutFails(p) ==
    /\ pc[p] = "copyOut"
    /\ pc' = [pc EXCEPT ![p] = "failed"]
    /\ UNCHANGED <<fs, args, overlapped, lookupVars, searchVars, uniqueVars>>

\* line 108: fs.rm(tmpDirectory, { recursive: true })
Rm(p) ==
    /\ pc[p] = "rm"
    /\ fs[Staging].exists
    /\ fs' = [fs EXCEPT ![Staging] = Absent]
    /\ pc' = [pc EXCEPT ![p] = "done"]
    /\ UNCHANGED <<args, overlapped, lookupVars, searchVars, uniqueVars>>

\* line 108: rm without force is rejected, the directory does not exist
RmFails(p) ==
    /\ pc[p] = "rm"
    /\ ~fs[Staging].exists
    /\ pc' = [pc EXCEPT ![p] = "failed"]
    /\ UNCHANGED <<fs, args, overlapped, lookupVars, searchVars, uniqueVars>>

CopyNext ==
    \E p \in Callers :
        \/ CopyDirCall(p)
        \/ Mkdir(p)
        \/ CopyIn(p)
        \/ CopyInFails(p)
        \/ CopyOut(p)
        \/ CopyOutFails(p)
        \/ Rm(p)
        \/ RmFails(p)

CopySpec == CopyInit /\ [][CopyNext]_vars

\* C7: when a copyDir call finishes, fulfilled or rejected, catalogDir/tmp
\* does not exist.
C7_StagingRemovedOnEveryExit ==
    [][\A p \in Callers :
          (~Finished(pc[p]) /\ Finished(pc'[p])) => ~fs'[Staging].exists]_vars

\* C8: a call without filter into an empty or absent target that is
\* fulfilled, with no other call in flight during it, leaves the target equal
\* to the source and catalogDir/tmp absent, whatever catalogDir/tmp held
\* before the call.
C8_RoundTrip ==
    [][\A p \in Callers :
          (/\ pc[p] = "rm" /\ pc'[p] = "done"
           /\ ~args[p].filter.given
           /\ args[p].targetWas \in {Absent, EmptyDir}
           /\ ~overlapped[p])
          => /\ fs'[TargetOf(p)] = fs'[SourceOf(p)]
             /\ ~fs'[Staging].exists]_vars

\* C10: when two calls interleave, a call that is fulfilled has in its
\* target no entry of the other call's source and, copying without filter,
\* every entry of its own source.
C10_NoLeakBetweenCalls ==
    \A p \in Callers :
        (pc[p] = "done" /\ overlapped[p]) =>
            /\ \A n \in Names : \A q \in Callers \ {p} :
                   fs[TargetOf(p)].entries[n] # DataOf(q)
            /\ ~args[p].filter.given =>
                   \A n \in Names :
                       fs[SourceOf(p)].entries[n] # NoFile =>
                           fs[TargetOf(p)].entries[n] = fs[SourceOf(p)].entries[n]

=============================================================================
